---------------------------- MODULE Spec2Model ----------------------------
(***************************************************************************)
(* Model of comicsd's worker-pool download (package mcp, downloadToCBZ and *)
(* downloadToEPUB) together with the two archive writers it feeds.         *)
(*                                                                         *)
(* One run of the download is modelled: the planning loop, the pool set-up,*)
(* the worker goroutines, the feeder goroutine, the join, the error check, *)
(* the in-order appends and the deferred cancel()/Close().                 *)
(***************************************************************************)
EXTENDS Integers, Sequences, FiniteSets, TLC

(***************************************************************************)
(* Bounds of the model.                                                    *)
(***************************************************************************)
MaxWorkers == 2
MaxChapters == 2
MaxPages == 2
MaxCalls == 3
MaxEvents == 2
MaxFetches == 2
MaxText == 3
MaxLinks == 2
MaxRequests == 2

(***************************************************************************)
(* Values.                                                                 *)
(***************************************************************************)
Chapters == {"A", "B"}
Formats == {"cbz", "epub"}

\* capacity of errCh: make(chan error, 1)
ErrChCap == 1

\* the nil error
Nil == [kind |-> "nil", at |-> 0, by |-> 0]

\* the error a collaborator call or an archive write returns; `at' is the
\* chapter position (planning), the task index (worker) or the page index
\* (archive write), `by' the worker (0: the job's own goroutine)
Err(kind, at, by) == [kind |-> kind, at |-> at, by |-> by]

\* a nil []byte: the zero value of a slot of results
NoBytes == <<>>

\* the absent entry of a worker's dlMap
NoSession == [owner |-> 0, chapter |-> "none"]

\* the *ComicsDL a worker gets from NewDownload
Session(w, c) == [owner |-> w, chapter |-> c]

\* the bytes the site serves for a page of a chapter
PageBytes(c, p) == <<c, p>>

\* cc.Pages of a chapter that has n pages: the values of the options of
\* #pageSelect, in document order
PageList(n) == [i \in 1..n |-> i]

\* fmt.Sprintf("%d.jpg", i)
JpgName(i) == [num |-> i, ext |-> "jpg"]

VARIABLES
  impl,         \* which download runs: the worker pool or the sequential loop
  format,       \* args.Format
  chapterIDs,   \* args.ChapterIDs
  pagesOf,      \* the site: number of pages of each chapter
  workerCnt,    \* workerCount()
  jpc,          \* position of the goroutine running downloadToCBZ/EPUB
  chn,          \* planning loop: position of the next chapter
  tasks,        \* tasks
  results,      \* results
  errCh,        \* errCh (buffered, capacity 1)
  cancelled,    \* ctx.Err() != nil
  wg,           \* the WaitGroup's counter
  done,         \* done (atomic progress counter)
  ai,           \* finalize loop: number of slots handled
  retErr,       \* the value the download returns
  cbz,          \* the zip.Writer of downloadToCBZ
  ew,           \* the EPUBWriter of downloadToEPUB
  wpc,          \* position of each worker
  wtask,        \* t, the task a worker holds
  werr,         \* err, the error a worker is about to report
  dlMap,        \* dlMap of each worker
  fpc,          \* position of the feeder goroutine
  fi,           \* feeder: position in tasks of the next task to send
  closed,       \* taskCh is closed
  pn,           \* sequential loop: position in cc.Pages of the next page
  hist,         \* history of the run (observations only)
  sess,         \* one *ComicsDL session, its listener and its page fetches
  inf,          \* one run of the info fetcher's fill functions
  req           \* the MCP server's download requests and the output files

vars == <<impl, format, chapterIDs, pagesOf, workerCnt, jpc, chn, tasks,
          results, errCh, cancelled, wg, done, ai, retErr, cbz, ew, wpc, wtask,
          werr, dlMap, fpc, fi, closed, pn, hist, sess, inf,
          req>>

inputVars == <<impl, format, chapterIDs, pagesOf, workerCnt>>
auxVars == <<sess, inf, req>>
seqVars == <<pn>>
runVars == <<jpc, chn, ai, retErr, cbz, ew, pn, hist, tasks, results, errCh,
             cancelled, wg, done, wpc, wtask, werr, dlMap, fpc, fi, closed>>
poolVars == <<tasks, results, errCh, cancelled, wg, done, wpc, wtask, werr,
              dlMap, fpc, fi, closed>>
jobVars == <<jpc, chn, tasks, results, ai, retErr, cbz, ew>>
workerVars == <<wpc, wtask, werr, dlMap>>
feederVars == <<fpc, fi, closed>>

Workers == 1..workerCnt
total == Len(tasks)

\* sequences over S of length lo..hi
SeqsOf(S, lo, hi) == UNION {[1..n -> S] : n \in lo..hi}

(***************************************************************************)
(* Task planner: the loop at the head of downloadToCBZ/downloadToEPUB.     *)
(***************************************************************************)
\* index: len(tasks)
TaskIndexOneBased(ts) == Len(ts) + 1
TaskIndex(ts) == Len(ts)

\* pageTask{chapterID: chapterID, pageID: p, index: len(tasks)}
PageTask(c, p, ts) == [chapterID |-> c, pageID |-> p, index |-> TaskIndex(ts)]

\* for _, p := range cc.Pages { tasks = append(tasks, ...) }
RECURSIVE PlanAppend(_, _, _)
PlanAppend(ts, c, pages) ==
  IF pages = <<>> THEN ts
  ELSE PlanAppend(Append(ts, PageTask(c, Head(pages), ts)), c, Tail(pages))

\* what the planning loop does when NewDownload returns an error:
\* `return err'
PlanErrorSkips(n) == [pc |-> "plan", chn |-> n + 1, err |-> Nil]
PlanErrorNoClose(n) == [pc |-> "done", chn |-> n, err |-> Err("plan", n, 0)]
PlanErrorReturns(n) == [pc |-> "deferClose", chn |-> n, err |-> Err("plan", n, 0)]

(***************************************************************************)
(* Archive writers.  An archive is the sequence of the entries created     *)
(* through its zip.Writer; zip.Writer.Create makes a Deflate entry.        *)
(***************************************************************************)
\* w, _ := zipWriter.Create(name); w.Write(data)
ZipEntry(name, data) == [name |-> name, method |-> "deflate", data |-> data]

\* zip.NewWriter(file)
NewZip == [entries |-> <<>>, closed |-> FALSE]

\* cbz.Create(name) followed by w.Write(data); failAt = 1: Create fails,
\* failAt = 2: Write fails, failAt = 0: both succeed
CbzAppendOneBased(z, i, data, failAt) ==
  IF failAt = 1 THEN z
  ELSE [z EXCEPT !.entries =
          Append(@, ZipEntry(JpgName(i + 1),
                             IF failAt = 2 THEN NoBytes ELSE data))]
CbzAppend(z, i, data, failAt) ==
  IF failAt = 1 THEN z
  ELSE [z EXCEPT !.entries =
          Append(@, ZipEntry(JpgName(i),
                             IF failAt = 2 THEN NoBytes ELSE data))]

\* cbz.Close()
ZipClose(z) == [z EXCEPT !.closed = TRUE]

\* the error of a failed archive write (Create or Write) at step `at'
WriteErr(at) == Err("write", at, 0)

\* the error zip.Writer.Close returns
CloseErr == Err("close", 0, 0)

\* epub.NewEPUBWriter(file, title)
NewEPUBWriter ==
  [entries |-> <<>>, pages |-> <<>>, images |-> <<>>, pageCount |-> 0,
   closed |-> FALSE]

\* e.zipWriter.Create(fmt.Sprintf("OEBPS/images/%s", filename)); Write(data)
ImageEntry(filename, data) ==
  ZipEntry([dir |-> "OEBPS/images", file |-> filename], data)

\* fmt.Sprintf("page%d.xhtml", pageNum)
XhtmlName(n) == [stem |-> "page", num |-> n, ext |-> "xhtml"]

\* e.zipWriter.Create(fmt.Sprintf("OEBPS/%s", xhtmlFilename)) and the
\* wrapper document written to it (title "Page n", img src "images/<file>")
XhtmlEntry(n, filename, written) ==
  ZipEntry([dir |-> "OEBPS", file |-> XhtmlName(n)],
           IF written
           THEN <<"xhtml", [page |-> n,
                            src |-> [dir |-> "images", file |-> filename]]>>
           ELSE NoBytes)

\* EPUBWriter.AddPage; failAt: 0 none, 1 Create(image), 2 Write(image),
\* 3 Create(xhtml), 4 Write(xhtml)
AddPageRecordsEarly(e, filename, data, failAt) ==
  LET pageNum == e.pageCount + 1
      img == ImageEntry(filename, IF failAt = 2 THEN NoBytes ELSE data)
      xh == XhtmlEntry(pageNum, filename, failAt # 4)
  IN  IF failAt = 1 THEN e
      ELSE IF failAt \in {2, 3} THEN [e EXCEPT !.entries = Append(@, img)]
      ELSE [e EXCEPT !.entries = @ \o <<img, xh>>,
                     !.pages = Append(@, XhtmlName(pageNum)),
                     !.images = Append(@, filename),
                     !.pageCount = @ + 1]
AddPage(e, filename, data, failAt) ==
  LET pageNum == e.pageCount + 1
      img == ImageEntry(filename, IF failAt = 2 THEN NoBytes ELSE data)
      xh == XhtmlEntry(pageNum, filename, failAt # 4)
  IN  IF failAt = 1 THEN e
      ELSE IF failAt \in {2, 3} THEN [e EXCEPT !.entries = Append(@, img)]
      ELSE IF failAt = 4 THEN [e EXCEPT !.entries = @ \o <<img, xh>>]
      ELSE [e EXCEPT !.entries = @ \o <<img, xh>>,
                     !.pages = Append(@, XhtmlName(pageNum)),
                     !.images = Append(@, filename),
                     !.pageCount = @ + 1]

\* the error AddPage returns
AddPageErr(failAt) == IF failAt = 0 THEN Nil ELSE WriteErr(failAt)

\* fmt.Sprintf("page%d", i+1), fmt.Sprintf("img%d", i+1)   (k is i+1)
PageId(k) == [stem |-> "page", num |-> k]
ImgId(k) == [stem |-> "img", num |-> k]

\* writeOPF: <item id="pageK" href="<page>" media-type="application/xhtml+xml"/>
PageItem(k, page) ==
  [id |-> PageId(k), href |-> page, mediaType |-> "application/xhtml+xml"]

\* writeOPF: <item id="imgK" href="images/<image>" media-type="image/jpeg"/>
ImageItemByIndex(k, image) ==
  [id |-> ImgId(k), href |-> [dir |-> "images", file |-> JpgName(k - 1)],
   mediaType |-> "image/jpeg"]
ImageItem(k, image) ==
  [id |-> ImgId(k), href |-> [dir |-> "images", file |-> image],
   mediaType |-> "image/jpeg"]

\* writeOPF: the manifest items of the pages, two per page, in page order
RECURSIVE ManifestItems(_, _)
ManifestItems(e, n) ==
  IF n = 0 THEN <<>>
  ELSE ManifestItems(e, n - 1)
         \o <<PageItem(n, e.pages[n]), ImageItem(n, e.images[n])>>

\* writeOPF: the package document
OPFContent(e) ==
  [cover |-> ImgId(1),
   ncx |-> [id |-> "ncx", href |-> "toc.ncx"],
   manifest |-> ManifestItems(e, Len(e.pages)),
   spine |-> [k \in 1..Len(e.pages) |-> PageId(k)]]

\* writeNCX: <navPoint id="pageK" playOrder="K"> ... <content src="<page>"/>
NavPointZeroBased(k, page) ==
  [id |-> PageId(k), playOrder |-> k - 1, label |-> k, src |-> page]
NavPoint(k, page) ==
  [id |-> PageId(k), playOrder |-> k, label |-> k, src |-> page]

\* writeNCX: the navigation document
NCXContent(e) ==
  [navMap |-> [k \in 1..Len(e.pages) |-> NavPoint(k, e.pages[k])],
   totalPageCount |-> e.pageCount,
   maxPageNumber |-> e.pageCount]

\* the four structure files Close writes, in its order
StructureNames == <<"mimetype", "META-INF/container.xml",
                    "OEBPS/content.opf", "OEBPS/toc.ncx">>

\* writeMimeType, writeContainer, writeOPF, writeNCX: the k-th structure
\* file; written = FALSE: its Create succeeded and its Write failed.  The
\* content of an entry is a tuple: the literal bytes of mimetype, or the
\* kind of the document and its fields
StructureEntry(e, k, written) ==
  ZipEntry([dir |-> "", file |-> StructureNames[k]],
           IF ~written THEN NoBytes
           ELSE IF k = 1 THEN <<"application/epub+zip">>
           ELSE IF k = 2 THEN <<"container", [rootfile |-> "OEBPS/content.opf"]>>
           ELSE IF k = 3 THEN <<"opf", OPFContent(e)>>
           ELSE <<"ncx", NCXContent(e)>>)

\* Close stops at the first structure file that fails; failAt: 0 none,
\* 2k-1: Create of the k-th structure file fails, 2k: its Write fails,
\* 9: e.zipWriter.Close() fails
CloseFailFile(failAt) == (failAt + 1) \div 2

\* Close reaches `return e.zipWriter.Close()'
ClosesArchiveAlways(failAt) == TRUE
ClosesArchive(failAt) == failAt \notin 1..8

\* EPUBWriter.Close
EPUBClose(e, failAt) ==
  LET n == IF failAt \in 1..8 THEN CloseFailFile(failAt) - 1 ELSE 4
      whole == [k \in 1..n |-> StructureEntry(e, k, TRUE)]
      part == IF failAt \in {2, 4, 6, 8}
              THEN <<StructureEntry(e, CloseFailFile(failAt), FALSE)>>
              ELSE <<>>
  IN  [e EXCEPT !.entries = @ \o whole \o part,
                !.closed = (@ \/ ClosesArchive(failAt))]

\* the error Close returns; a zip.Writer closed twice returns an error
EPUBCloseErr(e, failAt) ==
  IF failAt \in 1..8 THEN WriteErr(CloseFailFile(failAt))
  ELSE IF failAt = 9 \/ e.closed THEN CloseErr
  ELSE Nil

(***************************************************************************)
(* A downloader session (package downloader): the URL-to-request-id map    *)
(* the network listener fills, and DownloadPageTo with findRequestID.      *)
(* A URL is a sequence of tokens: a plain character or a percent escape.   *)
(***************************************************************************)
Tokens == {"a", " ", "%20", "%zz"}
Urls == [1..1 -> Tokens]

\* url.PathUnescape: "%20" decodes to a space, a malformed escape ("%zz")
\* is an error, every other character stands for itself
UnescapeToken(t) == IF t = "%20" THEN " " ELSE t
PathUnescape(u) ==
  IF \E i \in 1..Len(u) : u[i] = "%zz"
  THEN [ok |-> FALSE, val |-> <<>>]
  ELSE [ok |-> TRUE, val |-> [i \in 1..Len(u) |-> UnescapeToken(u[i])]]

\* the absent value of urlMap (a RequestID is the number of its event)
NoRequest == 0

\* make(map[string]network.RequestID)
EmptyUrlMap == [u \in Urls |-> NoRequest]

\* the listener's two assignments: dl.urlMap[ev.Request.URL] = ev.RequestID
\* and, when PathUnescape gave no error, dl.urlMap[unEscaped] = ev.RequestID
RecordRaw(m, ev) == [m EXCEPT ![ev.url] = ev.id]
RecordUnescaped(m, ev) == [m EXCEPT ![PathUnescape(ev.url).val] = ev.id]

\* findRequestID: the raw source first, then its path-unescaped form
FindRequestID(m, src) ==
  IF m[src] # NoRequest THEN [ok |-> TRUE, id |-> m[src]]
  ELSE IF PathUnescape(src).ok /\ m[PathUnescape(src).val] # NoRequest
       THEN [ok |-> TRUE, id |-> m[PathUnescape(src).val]]
       ELSE [ok |-> FALSE, id |-> NoRequest]

\* errors.New("no such image"): the src attribute of #mangaFile is absent
NoSuchImage == Err("no such image", 0, 0)

\* errors.New("no such url: " + src): no recorded request matches src
NoSuchUrlAsImage(src) == Err("no such image", 0, 0)
NoSuchUrl(src) == Err("no such url", 0, 0)

\* the errors of chromedp.Run's earlier actions, of GetResponseBody and of
\* writer.Write
RunErr == Err("run", 0, 0)
BodyErr == Err("body", 0, 0)

\* the body GetResponseBody returns for a request
Body(id) == <<"body", id>>

\* the positions at which the listener assigns to urlMap
Writes == {"writeRaw", "writeUnesc"}

\* the result of findRequestID: the lookup in the map when no assignment of
\* the listener ran during it; when one did (a data race on a Go map), any
\* request id, a miss, or the runtime's fatal error
Fatal == [ok |-> FALSE, id |-> -1]
FindOutcomes(m, src, raced, n) ==
  IF raced
  THEN {[ok |-> TRUE, id |-> i] : i \in 1..n} \cup {FindRequestID(m, src), Fatal}
            \cup {[ok |-> FALSE, id |-> NoRequest]}
  ELSE {FindRequestID(m, src)}

\* a session after NewDownload: the listener is registered, no page fetch
\* is running.  pc: position of DownloadPageTo; lpc: position of the
\* listener callback; ev: the event the callback handles
NewSession ==
  [pc |-> "idle", lpc |-> "idle", ev |-> [url |-> <<>>, id |-> 0],
   events |-> 0, urlMap |-> EmptyUrlMap,
   asked |-> FALSE, b |-> FALSE, src |-> <<>>, id |-> NoRequest,
   raced |-> FALSE,
   looked |-> FALSE, mapAtFind |-> EmptyUrlMap, bodyOk |-> FALSE,
   written |-> <<>>, err |-> Nil, fetches |-> 0]

(***************************************************************************)
(* The info fetcher (package info): fillComicInfo and fillSearchResults.   *)
(* A text is a sequence of tokens: "x" a letter, "SP" a space, "NL" a line *)
(* break, "COLON" a colon, "AUTHOR" the label 作者, "STATUS" the label 狀態 *)
(* and "STATUS_S" its simplified form 状态.                                 *)
(***************************************************************************)
TextTokens == {"x", "SP", "NL"}
DetailTokens == {"x", "SP", "NL", "COLON", "AUTHOR", "STATUS", "STATUS_S"}
Space == {"SP", "NL"}

\* strings.TrimSpace
RECURSIVE TrimLeft(_)
TrimLeft(t) == IF t # <<>> /\ Head(t) \in Space THEN TrimLeft(Tail(t)) ELSE t
RECURSIVE TrimRight(_)
TrimRight(t) ==
  IF t # <<>> /\ t[Len(t)] \in Space THEN TrimRight(SubSeq(t, 1, Len(t) - 1))
  ELSE t
TrimSpace(t) == TrimRight(TrimLeft(t))

\* strings.Contains(detailText, label)
Contains(t, labels) == \E i \in 1..Len(t) : t[i] \in labels

\* regexp `<label>[：:]\s*([^\n\r]+)` at position i: the group starts after
\* the longest run of white space that still leaves it a character, and
\* runs to the end of the line; 0 when there is no match at i
GroupStart(t, label, i) ==
  IF ~(i + 1 <= Len(t) /\ t[i] = label /\ t[i + 1] = "COLON") THEN 0
  ELSE LET G == {g \in (i + 2)..Len(t) :
                   /\ t[g] # "NL"
                   /\ \A k \in (i + 2)..(g - 1) : t[k] \in Space}
       IN  IF G = {} THEN 0 ELSE CHOOSE g \in G : \A h \in G : h <= g
GroupEnd(t, g) ==
  CHOOSE h \in g..Len(t) :
    /\ \A k \in g..h : t[k] # "NL"
    /\ (h = Len(t) \/ t[h + 1] = "NL")

\* re.FindStringSubmatch(detailText): the group of the leftmost match, with
\* found = FALSE when nothing matches (len(matches) > 1 is false)
FindSubmatch(t, label) ==
  LET I == {i \in 1..Len(t) : GroupStart(t, label, i) # 0}
  IN  IF I = {} THEN [found |-> FALSE, group |-> <<>>]
      ELSE LET i == CHOOSE i \in I : \A j \in I : i <= j
               g == GroupStart(t, label, i)
           IN  [found |-> TRUE, group |-> SubSeq(t, g, GroupEnd(t, g))]

\* info.Author: set when the text contains 作者 and the pattern matches
AuthorOf(t, old) ==
  IF Contains(t, {"AUTHOR"}) /\ FindSubmatch(t, "AUTHOR").found
  THEN TrimSpace(FindSubmatch(t, "AUTHOR").group) ELSE old

\* info.Status: set when the text contains 狀態 or 状态 and the pattern,
\* which names 狀態 only, matches
StatusOf(t, old) ==
  IF Contains(t, {"STATUS", "STATUS_S"}) /\ FindSubmatch(t, "STATUS").found
  THEN TrimSpace(FindSubmatch(t, "STATUS").group) ELSE old

\* the links evalJS returns: href and title.  An href is a sequence of path
\* segments; "N" is a run of digits, "N.html" a run of digits and ".html"
Hrefs == {<<"comic", "N", "N.html">>, <<"comic", "N", "x.html">>,
          <<"comic", "N">>, <<"book", "N">>}
Links == {[href |-> h, title |-> <<"x">>] : h \in Hrefs}

\* regexp `/comic/\d+/(\d+)\.html`: the chapter id, "" when no match
ChapterIdOf(h) ==
  IF Len(h) >= 3 /\ h[1] = "comic" /\ h[2] = "N" /\ h[3] = "N.html"
  THEN <<"N">> ELSE <<>>

\* regexp `/comic/(\d+)/`: the comic id, "" when no match
ComicIdOf(h) ==
  IF Len(h) >= 2 /\ h[1] = "comic" /\ h[2] = "N" THEN <<"N">> ELSE <<>>

\* Chapter{ID: chapterID, Title: title, URL: link}: one per link
ChaptersOf(links) ==
  [k \in 1..Len(links) |->
     [ID |-> ChapterIdOf(links[k].href), Title |-> links[k].title,
      URL |-> links[k].href]]

\* SearchResult{ID: comicID, Title: title, URL: link} for the links whose
\* comic id is not empty
RECURSIVE ResultsOf(_)
ResultsOf(links) ==
  IF links = <<>> THEN <<>>
  ELSE LET l == Head(links)
           r == [ID |-> ComicIdOf(l.href), Title |-> l.title, URL |-> l.href]
       IN  (IF r.ID # <<>> THEN <<r>> ELSE <<>>) \o ResultsOf(Tail(links))

\* the errors textContent and evalJS return
Causes == {"missing", "timeout"}

\* fmt.Errorf("get title: %w", e)
Wrap(step, e) == [step |-> step, cause |-> e]

\* multierr.Append(err, e); the nil error is the empty list
MultiAppendLast(err, e) == <<e>>
MultiAppend(err, e) == Append(err, e)

\* &ComicInfo{ID: comicID, Chapters: make([]Chapter, 0)}
NewComicInfo ==
  [Title |-> <<>>, Author |-> <<>>, Status |-> <<>>, Description |-> <<>>,
   Chapters |-> <<>>]

\* the state of one call of a fill function: its position, the info or the
\* results it fills, its err, and the steps it tried and those that failed
NewFill ==
  [pc |-> "idle", info |-> NewComicInfo, results |-> <<>>, err |-> <<>>,
   tried |-> <<>>, failed |-> <<>>]

(***************************************************************************)
(* The MCP server's download operation: downloadComic (tool                *)
(* download_comic) and summarizeComicOfficial (tool summarize_comic).      *)
(* Arguments are a format, a chapter list, a comic id and a title; the     *)
(* output file is named <title>.<format>.                                  *)
(***************************************************************************)
Handlers == {"downloadComic", "summarizeComicOfficial"}

\* the arguments a client may send
ReqArgs ==
  [format : {"cbz", "epub", "pdf", ""}, chapters : {<<>>, <<"A">>},
   comicID : {"", "c"}, title : {"", "t"}]

\* the checks at the head of the handler, in its order: the error it
\* returns, or Nil when the request passes
ValidateFormatOnly(h, a) ==
  IF a.format \notin {"cbz", "epub"} /\ (h = "downloadComic" \/ a.format # "")
  THEN Err("invalid format", 0, 0)
  ELSE Nil
Validate(h, a) ==
  IF a.format \notin {"cbz", "epub"} /\ (h = "downloadComic" \/ a.format # "")
  THEN Err("invalid format", 0, 0)
  ELSE IF h = "summarizeComicOfficial" /\ a.comicID = ""
  THEN Err("comic_id is required", 0, 0)
  ELSE IF a.chapters = <<>> THEN Err("no chapters", 0, 0)
  ELSE IF h = "summarizeComicOfficial" /\ a.title = ""
  THEN Err("title is required", 0, 0)
  ELSE Nil

\* fmt.Sprintf("%s.%s", title, format); summarizeComicOfficial has replaced
\* an empty format by "cbz"
OutputName(h, a) ==
  <<a.title, IF h = "summarizeComicOfficial" /\ a.format = "" THEN "cbz"
             ELSE a.format>>

\* before the first request: no output file exists.  A file is "absent",
\* "empty" (created or truncated by os.Create), "archive" (a finished
\* download) or "partial" (a failed one); before holds the files and the
\* number of collaborator calls at the start of the current request
NewRequest ==
  [pc |-> "idle", calls |-> 0, h |-> "none",
   a |-> [format |-> "", chapters |-> <<>>, comicID |-> "", title |-> ""],
   files |-> [n \in {"", "t"} \X {"cbz", "epub"} |-> "absent"],
   contacts |-> 0, created |-> FALSE, err |-> Nil,
   before |-> [files |-> [n \in {"", "t"} \X {"cbz", "epub"} |-> "absent"],
               contacts |-> 0]]

(***************************************************************************)
(* Worker-pool helpers.                                                    *)
(***************************************************************************)
\* select { case errCh <- err: default: }
TrySendOverwrite(ch, e) == <<e>>
TrySend(ch, e) == IF Len(ch) < ErrChCap THEN Append(ch, e) ELSE ch

\* select { case err := <-errCh: return err; default: }
JobErrIgnored(ch) == Nil
JobErr(ch) == IF ch # <<>> THEN Head(ch) ELSE Nil

\* if ctx.Err() != nil
CtxErrIgnored(c) == FALSE
CtxErr(c) == c

\* atomic.AddInt32(&done, 1): the new value
AddInt32Stale(d) == d
AddInt32(d) == d + 1

\* wg.Wait() returns
WaitReturnsEarly(n) == n <= 1
WaitReturns(n) == n = 0

\* dl, ok := dlMap[t.chapterID]   (ok is dl # NoSession)
LookupSessionNever(m, w, c) == NoSession
LookupSessionShared(m, w, c) ==
  IF \E v \in DOMAIN m : m[v][c] # NoSession
  THEN m[CHOOSE v \in DOMAIN m : m[v][c] # NoSession][c]
  ELSE NoSession
LookupSession(m, w, c) == m[w][c]

\* results[t.index] = buf.Bytes(): the slot (0-based) a worker writes
ResultSlotByCompletion(t, n) == n
ResultSlot(t, n) == t.index

\* the range over tasks is over: the feeder reaches close(taskCh)
RangeNeverEnds(i, n) == FALSE
RangeOver(i, n) == i > n

\* for _, t := range tasks: the position after position i
NextTaskRepeats(i) == IF i = 1 THEN 1 ELSE i + 1
NextTask(i) == i + 1

(***************************************************************************)
(* Initial state: the arguments of the call and the state of the site.     *)
(* downloadComic rejects an empty chapter list before it calls the         *)
(* download, and workerCount() returns a positive number.                  *)
(***************************************************************************)
\* the state at the start of a call, whatever its arguments
InitState ==
  /\ chn = 1
  /\ tasks = <<>>
  /\ results = <<>>
  /\ errCh = <<>>
  /\ cancelled = FALSE
  /\ wg = 0
  /\ done = 0
  /\ ai = 0
  /\ retErr = Nil
  /\ cbz = NewZip
  /\ ew = NewEPUBWriter
  /\ wpc = [w \in Workers |-> "idle"]
  /\ wtask = [w \in Workers |-> [chapterID |-> "none", pageID |-> 0, index |-> 0]]
  /\ werr = [w \in Workers |-> Nil]
  /\ dlMap = [w \in Workers |-> [c \in Chapters |-> NoSession]]
  /\ fpc = "idle"
  /\ fi = 1
  /\ closed = FALSE
  /\ pn = 1
  /\ hist = [resolved |-> <<>>, planFailed |-> {}, errLog |-> <<>>, failed |-> {},
             recv |-> <<>>, writers |-> <<>>, sessUse |-> {},
             appended |-> <<>>, writeFailed |-> FALSE, closeCalls |-> 0,
             closeErr |-> Nil, appendsAtClose |-> 0, calls |-> <<>>,
             late |-> {}, checks |-> <<>>, collab |-> {}, early |-> {},
             opens |-> [w \in Workers |-> [c \in Chapters |-> 0]],
             progress |-> <<>>]
  /\ sess = NewSession
  /\ inf = NewFill
  /\ req = NewRequest

Init ==
  /\ impl \in {"pool", "seq"}
  /\ format \in Formats
  /\ chapterIDs \in SeqsOf(Chapters, 1, MaxChapters)
  /\ pagesOf \in [Chapters -> 0..MaxPages]
  /\ workerCnt \in (IF impl = "pool" THEN 1..MaxWorkers ELSE {1})
  /\ jpc = (IF impl = "pool" THEN "plan" ELSE "seqChapter")
  /\ InitState

(***************************************************************************)
(* The goroutine running downloadToCBZ / downloadToEPUB.                   *)
(***************************************************************************)
\* one iteration of the planning loop: NewDownload(ctx, ComicID, chapterID)
\* and, when it succeeds, one task per page of cc.Pages
PlanChapter ==
  /\ jpc = "plan"
  /\ chn <= Len(chapterIDs)
  /\ \E ok \in BOOLEAN :
       LET c == chapterIDs[chn]
           f == PlanErrorReturns(chn)
       IN  /\ hist' = [hist EXCEPT !.resolved = Append(@, chn),
                                   !.planFailed = IF ok THEN @ ELSE @ \cup {chn}]
           /\ IF ok
              THEN /\ tasks' = PlanAppend(tasks, c, PageList(pagesOf[c]))
                   /\ chn' = chn + 1
                   /\ UNCHANGED <<jpc, retErr>>
              ELSE /\ jpc' = f.pc
                   /\ chn' = f.chn
                   /\ retErr' = f.err
                   /\ UNCHANGED tasks
  /\ UNCHANGED <<inputVars, auxVars, seqVars, results, errCh, cancelled, wg, done, ai, cbz, ew,
                 workerVars, feederVars>>

\* the loop is over: total == 0 returns nil; otherwise the pool's shared
\* state is created (ctx/cancel, results, taskCh, errCh, wg, done)
Setup ==
  /\ jpc = "plan"
  /\ chn > Len(chapterIDs)
  /\ IF total = 0
     THEN /\ jpc' = "deferClose"
          /\ retErr' = Nil
          /\ UNCHANGED <<results, errCh, wg, done, hist>>
     ELSE /\ jpc' = "spawn"
          /\ results' = [i \in 1..total |-> NoBytes]
          /\ errCh' = <<>>
          /\ wg' = 0
          /\ done' = 0
          /\ hist' = [hist EXCEPT !.recv = [i \in 1..total |-> <<>>],
                                  !.writers = [i \in 1..total |-> <<>>],
                                  !.checks = [i \in 1..total |-> 0]]
          /\ UNCHANGED retErr
  /\ UNCHANGED <<inputVars, auxVars, seqVars, chn, tasks, cancelled, ai, cbz, ew, workerVars,
                 feederVars>>

\* the loop of wg.Add(1); go worker(i+1), then go feeder
StartPool ==
  /\ jpc = "spawn"
  /\ wg' = workerCnt
  /\ wpc' = [w \in Workers |-> "recv"]
  /\ fpc' = "send"
  /\ jpc' = "wait"
  /\ UNCHANGED <<inputVars, auxVars, seqVars, chn, tasks, results, errCh, cancelled, done, ai,
                 retErr, cbz, ew, wtask, werr, dlMap, fi, closed, hist>>

\* wg.Wait()
Wait ==
  /\ jpc = "wait"
  /\ WaitReturns(wg)
  /\ jpc' = "checkErr"
  /\ UNCHANGED <<inputVars, auxVars, seqVars, chn, tasks, results, errCh, cancelled, wg, done,
                 ai, retErr, cbz, ew, workerVars, feederVars, hist>>

\* select { case err := <-errCh: return err; default: }
CheckErr ==
  /\ jpc = "checkErr"
  /\ IF JobErr(errCh) # Nil
     THEN /\ retErr' = JobErr(errCh)
          /\ errCh' = Tail(errCh)
          /\ jpc' = "deferCancel"
     ELSE /\ jpc' = "append"
          /\ UNCHANGED <<retErr, errCh>>
  /\ UNCHANGED <<inputVars, auxVars, seqVars, chn, tasks, results, cancelled, wg, done, ai, cbz,
                 ew, workerVars, feederVars, hist>>

\* one iteration of `for i, data := range results': the page is appended to
\* the archive; a failing archive write returns its error
AppendPage ==
  /\ jpc = "append"
  /\ ai < Len(results)
  /\ \E failAt \in 0..4 :
       LET data == results[ai + 1] IN
       /\ IF format = "cbz"
          THEN /\ failAt \in 0..2
               /\ cbz' = CbzAppend(cbz, ai, data, failAt)
               /\ UNCHANGED ew
          ELSE /\ ew' = AddPage(ew, JpgName(ai), data, failAt)
               /\ UNCHANGED cbz
       /\ hist' = [hist EXCEPT
                     !.appended = Append(@, [name |-> JpgName(ai), data |-> data]),
                     !.writeFailed = (failAt # 0)]
       /\ IF failAt = 0
          THEN /\ ai' = ai + 1
               /\ UNCHANGED <<jpc, retErr>>
          ELSE /\ retErr' = WriteErr(ai)
               /\ jpc' = "deferCancel"
               /\ UNCHANGED ai
  /\ UNCHANGED <<inputVars, auxVars, seqVars, chn, tasks, results, errCh, cancelled, wg, done,
                 workerVars, feederVars>>

\* the range is over: return nil
AppendDone ==
  /\ jpc = "append"
  /\ ai >= Len(results)
  /\ retErr' = Nil
  /\ jpc' = "deferCancel"
  /\ UNCHANGED <<inputVars, auxVars, seqVars, chn, tasks, results, errCh, cancelled, wg, done,
                 ai, cbz, ew, workerVars, feederVars, hist>>

\* defer cancel()
DeferCancel ==
  /\ jpc = "deferCancel"
  /\ cancelled' = TRUE
  /\ jpc' = "deferClose"
  /\ UNCHANGED <<inputVars, auxVars, seqVars, chn, tasks, results, errCh, wg, done, ai, retErr,
                 cbz, ew, workerVars, feederVars, hist>>

\* defer cbz.Close() / defer epubWriter.Close(); the error Close returns is
\* dropped by the defer
DeferClose ==
  /\ jpc = "deferClose"
  /\ \E failAt \in 0..9 :
       /\ IF format = "cbz"
          THEN /\ failAt \in {0, 9}
               /\ cbz' = ZipClose(cbz)
               /\ UNCHANGED ew
          ELSE /\ ew' = EPUBClose(ew, failAt)
               /\ UNCHANGED cbz
       /\ hist' = [hist EXCEPT
                     !.closeCalls = @ + 1,
                     !.appendsAtClose = Len(hist.appended),
                     !.closeErr = IF format = "cbz"
                                  THEN (IF failAt = 9 THEN CloseErr ELSE Nil)
                                  ELSE EPUBCloseErr(ew, failAt)]
  /\ jpc' = "done"
  /\ UNCHANGED <<inputVars, auxVars, seqVars, chn, tasks, results, errCh, cancelled, wg, done,
                 ai, retErr, workerVars, feederVars>>

(***************************************************************************)
(* The sequential download: downloadToCBZ / downloadToEPUB of the command  *)
(* line (cmd/comicsd/main.go).  chn is the chapter position, pn the        *)
(* position in cc.Pages, ai the page counter `page'.                       *)
(***************************************************************************)
\* cc, err := downloader.NewDownload(ctx, comicID, chapterID)
SeqChapter ==
  /\ jpc = "seqChapter"
  /\ chn <= Len(chapterIDs)
  /\ \E ok \in BOOLEAN :
       IF ok
       THEN /\ jpc' = "seqPage"
            /\ pn' = 1
            /\ UNCHANGED retErr
       ELSE /\ jpc' = "deferClose"
            /\ retErr' = Err("open", chn, 0)
            /\ UNCHANGED pn
  /\ UNCHANGED <<inputVars, auxVars, poolVars, chn, ai, cbz, ew, hist>>

\* the range over cc.Pages is over: next chapter
SeqNextChapter ==
  /\ jpc = "seqPage"
  /\ pn > pagesOf[chapterIDs[chn]]
  /\ chn' = chn + 1
  /\ jpc' = "seqChapter"
  /\ UNCHANGED <<inputVars, auxVars, poolVars, seqVars, ai, retErr, cbz, ew, hist>>

\* one page.  CBZ: cbz.Create("<page>.jpg"), cc.DownloadPageTo(p, w), page++.
\* EPUB: cc.DownloadPageTo(p, &buf), writer.AddPage("<page>.jpg", buf), page++
SeqPage ==
  /\ jpc = "seqPage"
  /\ pn <= pagesOf[chapterIDs[chn]]
  /\ \E fetchOk \in BOOLEAN, failAt \in 0..4 :
       LET c == chapterIDs[chn]
           data == PageBytes(c, PageList(pagesOf[c])[pn])
           err == IF failAt # 0 THEN WriteErr(ai)
                  ELSE IF ~fetchOk THEN Err("fetch", ai, 0)
                  ELSE Nil
       IN
       /\ fetchOk \/ failAt = 0
       /\ IF format = "cbz"
          THEN /\ failAt \in 0..2
               /\ cbz' = CbzAppend(cbz, ai, data, IF fetchOk THEN failAt ELSE 2)
               /\ hist' = [hist EXCEPT
                             !.appended = Append(@, [name |-> JpgName(ai),
                                 data |-> IF fetchOk THEN data ELSE NoBytes]),
                             !.writeFailed = (failAt # 0)]
               /\ UNCHANGED ew
          ELSE /\ IF fetchOk
                  THEN /\ ew' = AddPage(ew, JpgName(ai), data, failAt)
                       /\ hist' = [hist EXCEPT
                                     !.appended = Append(@, [name |-> JpgName(ai),
                                                             data |-> data]),
                                     !.writeFailed = (failAt # 0)]
                  ELSE UNCHANGED <<ew, hist>>
               /\ UNCHANGED cbz
       /\ IF err = Nil
          THEN /\ ai' = ai + 1
               /\ pn' = pn + 1
               /\ UNCHANGED <<jpc, retErr>>
          ELSE /\ retErr' = err
               /\ jpc' = "deferClose"
               /\ UNCHANGED <<ai, pn>>
  /\ UNCHANGED <<inputVars, auxVars, poolVars, chn>>

\* the range over chapters is over: return nil
SeqReturn ==
  /\ jpc = "seqChapter"
  /\ chn > Len(chapterIDs)
  /\ retErr' = Nil
  /\ jpc' = "deferClose"
  /\ UNCHANGED <<inputVars, auxVars, poolVars, seqVars, chn, ai, cbz, ew, hist>>

(***************************************************************************)
(* The feeder goroutine: for _, t := range tasks { taskCh <- t };          *)
(* close(taskCh).  taskCh is unbuffered: a send completes together with    *)
(* the receive of a worker blocked in `for t := range taskCh'.             *)
(***************************************************************************)
Deliver(w) ==
  /\ fpc = "send"
  /\ fi <= total
  /\ wpc[w] = "recv"
  /\ wtask' = [wtask EXCEPT ![w] = tasks[fi]]
  /\ wpc' = [wpc EXCEPT ![w] = "check"]
  /\ hist' = [hist EXCEPT !.recv[fi] = Append(@, w),
                          !.late = IF cancelled THEN @ \cup {fi} ELSE @]
  /\ fi' = NextTask(fi)
  /\ UNCHANGED <<inputVars, auxVars, seqVars, jobVars, errCh, cancelled, wg, done, werr, dlMap,
                 fpc, closed>>

CloseTaskCh ==
  /\ fpc = "send"
  /\ RangeOver(fi, total)
  /\ closed' = TRUE
  /\ fpc' = "done"
  /\ UNCHANGED <<inputVars, auxVars, seqVars, jobVars, errCh, cancelled, wg, done, workerVars,
                 fi, hist>>

(***************************************************************************)
(* A worker goroutine.                                                     *)
(***************************************************************************)
\* `for t := range taskCh' ends on the closed channel; deferred wg.Done()
WorkerEnd(w) ==
  /\ wpc[w] = "recv"
  /\ closed
  /\ wpc' = [wpc EXCEPT ![w] = "returned"]
  /\ wg' = wg - 1
  /\ UNCHANGED <<inputVars, auxVars, seqVars, jobVars, errCh, cancelled, done, wtask, werr,
                 dlMap, feederVars, hist>>

\* if ctx.Err() != nil { return }; dl, ok := dlMap[t.chapterID]
CheckCtx(w) ==
  /\ wpc[w] = "check"
  /\ IF CtxErr(cancelled)
     THEN /\ wpc' = [wpc EXCEPT ![w] = "returned"]
          /\ wg' = wg - 1
          /\ hist' = [hist EXCEPT !.checks[wtask[w].index + 1] = @ + 1,
                                  !.early = @ \cup {w}]
     ELSE /\ wpc' = [wpc EXCEPT ![w] =
                       IF LookupSession(dlMap, w, wtask[w].chapterID) # NoSession
                       THEN "fetch" ELSE "open"]
          /\ hist' = [hist EXCEPT !.checks[wtask[w].index + 1] = @ + 1]
          /\ UNCHANGED wg
  /\ UNCHANGED <<inputVars, auxVars, seqVars, jobVars, errCh, cancelled, done, wtask, werr,
                 dlMap, feederVars>>

\* dl, err = downloader.NewDownload(wctx, args.ComicID, t.chapterID)
OpenSession(w) ==
  /\ wpc[w] = "open"
  /\ \E ok \in BOOLEAN :
       LET t == wtask[w] IN
       IF ok
       THEN /\ dlMap' = [dlMap EXCEPT ![w][t.chapterID] = Session(w, t.chapterID)]
            /\ wpc' = [wpc EXCEPT ![w] = "fetch"]
            /\ hist' = [hist EXCEPT !.collab = @ \cup {t.index + 1},
                                    !.opens[w][t.chapterID] = @ + 1]
            /\ UNCHANGED werr
       ELSE /\ werr' = [werr EXCEPT ![w] = Err("open", t.index, w)]
            /\ wpc' = [wpc EXCEPT ![w] = "sendErr"]
            /\ hist' = [hist EXCEPT !.failed = @ \cup {t.index},
                                    !.collab = @ \cup {t.index + 1},
                                    !.opens[w][t.chapterID] = @ + 1]
            /\ UNCHANGED dlMap
  /\ UNCHANGED <<inputVars, auxVars, seqVars, jobVars, errCh, cancelled, wg, done, wtask,
                 feederVars>>

\* dl.DownloadPageTo(t.pageID, &buf); results[t.index] = buf.Bytes()
FetchPage(w) ==
  /\ wpc[w] = "fetch"
  /\ \E ok \in BOOLEAN :
       LET t == wtask[w]
           dl == LookupSession(dlMap, w, t.chapterID)
           slot == ResultSlot(t, done) + 1
       IN
       IF ok
       THEN /\ results' = [results EXCEPT ![slot] = PageBytes(dl.chapter, t.pageID)]
            /\ wpc' = [wpc EXCEPT ![w] = "count"]
            /\ hist' = [hist EXCEPT !.sessUse = @ \cup {<<dl, w>>},
                                    !.writers[slot] = Append(@, w),
                                    !.collab = @ \cup {t.index + 1}]
            /\ UNCHANGED werr
       ELSE /\ werr' = [werr EXCEPT ![w] = Err("fetch", t.index, w)]
            /\ wpc' = [wpc EXCEPT ![w] = "sendErr"]
            /\ hist' = [hist EXCEPT !.sessUse = @ \cup {<<dl, w>>},
                                    !.failed = @ \cup {t.index},
                                    !.collab = @ \cup {t.index + 1}]
            /\ UNCHANGED results
  /\ UNCHANGED <<inputVars, auxVars, seqVars, jpc, chn, tasks, ai, retErr, cbz, ew, errCh,
                 cancelled, wg, done, wtask, dlMap, feederVars>>

\* completed := atomic.AddInt32(&done, 1)
Count(w) ==
  /\ wpc[w] = "count"
  /\ done' = AddInt32(done)
  /\ hist' = [hist EXCEPT !.progress = Append(@, AddInt32(done))]
  /\ wpc' = [wpc EXCEPT ![w] = "recv"]
  /\ UNCHANGED <<inputVars, auxVars, seqVars, jobVars, errCh, cancelled, wg, wtask, werr, dlMap,
                 feederVars>>

\* select { case errCh <- err: default: }
SendErr(w) ==
  /\ wpc[w] = "sendErr"
  /\ errCh' = TrySend(errCh, werr[w])
  /\ hist' = [hist EXCEPT !.errLog = Append(@, werr[w])]
  /\ wpc' = [wpc EXCEPT ![w] = "cancel"]
  /\ UNCHANGED <<inputVars, auxVars, seqVars, jobVars, cancelled, wg, done, wtask, werr, dlMap,
                 feederVars>>

\* cancel(); return: the signal is raised while the worker is still counted
\* by the WaitGroup; its deferred calls run next
Cancel(w) ==
  /\ wpc[w] = "cancel"
  /\ cancelled' = TRUE
  /\ wpc' = [wpc EXCEPT ![w] = "exit"]
  /\ hist' = [hist EXCEPT !.early = @ \cup {w}]
  /\ UNCHANGED <<inputVars, auxVars, seqVars, jobVars, errCh, wg, done, wtask, werr,
                 dlMap, feederVars>>

\* the deferred calls of a worker that returned after cancel(): wcancel(),
\* then wg.Done()
WorkerDone(w) ==
  /\ wpc[w] = "exit"
  /\ wpc' = [wpc EXCEPT ![w] = "returned"]
  /\ wg' = wg - 1
  /\ UNCHANGED <<inputVars, auxVars, seqVars, jobVars, errCh, cancelled, done, wtask,
                 werr, dlMap, feederVars, hist>>

Next ==
  \/ SeqChapter
  \/ SeqNextChapter
  \/ SeqPage
  \/ SeqReturn
  \/ PlanChapter
  \/ Setup
  \/ StartPool
  \/ Wait
  \/ CheckErr
  \/ AppendPage
  \/ AppendDone
  \/ DeferCancel
  \/ DeferClose
  \/ CloseTaskCh
  \/ \E w \in Workers : Deliver(w)
  \/ \E w \in Workers : WorkerEnd(w)
  \/ \E w \in Workers : CheckCtx(w)
  \/ \E w \in Workers : OpenSession(w)
  \/ \E w \in Workers : FetchPage(w)
  \/ \E w \in Workers : Count(w)
  \/ \E w \in Workers : SendErr(w)
  \/ \E w \in Workers : Cancel(w)
  \/ \E w \in Workers : WorkerDone(w)

Spec == Init /\ [][Next]_vars

(***************************************************************************)
(* The worker-pool download under the Go scheduler: every goroutine that   *)
(* can take a step eventually takes one (the collaborator calls return).   *)
(***************************************************************************)
PoolInit == Init /\ impl = "pool"

PoolNext ==
  \/ PlanChapter
  \/ Setup
  \/ StartPool
  \/ Wait
  \/ CheckErr
  \/ AppendPage
  \/ AppendDone
  \/ DeferCancel
  \/ DeferClose
  \/ CloseTaskCh
  \/ \E w \in Workers : Deliver(w)
  \/ \E w \in Workers : WorkerEnd(w)
  \/ \E w \in Workers : CheckCtx(w)
  \/ \E w \in Workers : OpenSession(w)
  \/ \E w \in Workers : FetchPage(w)
  \/ \E w \in Workers : Count(w)
  \/ \E w \in Workers : SendErr(w)
  \/ \E w \in Workers : Cancel(w)
  \/ \E w \in Workers : WorkerDone(w)

PoolFairness ==
  /\ WF_vars(PlanChapter \/ Setup \/ StartPool \/ Wait \/ CheckErr
               \/ AppendPage \/ AppendDone \/ DeferCancel \/ DeferClose)
  /\ WF_vars(CloseTaskCh)
  /\ \A w \in 1..MaxWorkers :
       /\ WF_vars(w \in Workers /\ Deliver(w))
       /\ WF_vars(w \in Workers
                    /\ (WorkerEnd(w) \/ CheckCtx(w) \/ OpenSession(w)
                          \/ FetchPage(w) \/ Count(w) \/ SendErr(w)
                          \/ Cancel(w) \/ WorkerDone(w)))

PoolLiveSpec == PoolInit /\ [][PoolNext]_vars /\ PoolFairness

(***************************************************************************)
(* An EPUBWriter driven directly by a client, as the package's tests do:   *)
(* any sequence of at most MaxCalls calls of AddPage and Close, each of    *)
(* which may hit a failing output stream.  hist.calls logs every call with *)
(* its arguments, the error it returned and the entries it created.        *)
(***************************************************************************)
\* extensions of the filenames the client passes
Exts == {"jpg", "jpeg", "png", "gif"}

\* the filename and the image bytes of the client's k-th call (k from 0)
FileName(k, ext) == [num |-> k, ext |-> ext]
Blob(k) == <<"blob", k>>

\* the entries a call created
Added(before, after) ==
  SubSeq(after.entries, Len(before.entries) + 1, Len(after.entries))

WriterInit ==
  /\ impl = "writer"
  /\ format = "epub"
  /\ chapterIDs = <<"A">>
  /\ pagesOf = [c \in Chapters |-> 0]
  /\ workerCnt = 1
  /\ jpc = "writer"
  /\ InitState

\* writer.AddPage(filename, data)
WriterAddPage ==
  /\ jpc = "writer"
  /\ Len(hist.calls) < MaxCalls
  /\ \E ext \in Exts, failAt \in 0..4 :
       LET k == Len(hist.calls)
           after == AddPage(ew, FileName(k, ext), Blob(k), failAt)
       IN  /\ ew' = after
           /\ hist' = [hist EXCEPT !.calls = Append(@,
                 [op |-> "AddPage", file |-> FileName(k, ext), data |-> Blob(k),
                  failAt |-> failAt, err |-> AddPageErr(failAt),
                  closedBefore |-> ew.closed, closedAfter |-> after.closed,
                  added |-> Added(ew, after),
                  recorded |-> after.pageCount - ew.pageCount])]
  /\ UNCHANGED <<inputVars, auxVars, poolVars, seqVars, jpc, chn, ai, retErr, cbz>>

\* writer.Close()
WriterClose ==
  /\ jpc = "writer"
  /\ Len(hist.calls) < MaxCalls
  /\ \E failAt \in 0..9 :
       LET after == EPUBClose(ew, failAt)
       IN  /\ ew' = after
           /\ hist' = [hist EXCEPT !.calls = Append(@,
                 [op |-> "Close", file |-> FileName(0, "none"), data |-> NoBytes,
                  failAt |-> failAt, err |-> EPUBCloseErr(ew, failAt),
                  closedBefore |-> ew.closed, closedAfter |-> after.closed,
                  added |-> Added(ew, after),
                  recorded |-> after.pageCount - ew.pageCount])]
  /\ UNCHANGED <<inputVars, auxVars, poolVars, seqVars, jpc, chn, ai, retErr, cbz>>

WriterNext == WriterAddPage \/ WriterClose

WriterSpec == WriterInit /\ [][WriterNext]_vars

(***************************************************************************)
(* One downloader session after NewDownload: the listener callback, which  *)
(* chromedp runs on its event goroutine for every EventRequestWillBeSent,  *)
(* and at most MaxFetches calls of DownloadPageTo on the caller's          *)
(* goroutine.  Nothing in the package orders the two goroutines.           *)
(***************************************************************************)
SessionInit ==
  /\ impl = "session"
  /\ format = "cbz"
  /\ chapterIDs = <<"A">>
  /\ pagesOf = [c \in Chapters |-> 0]
  /\ workerCnt = 1
  /\ jpc = "session"
  /\ InitState

\* case *network.EventRequestWillBeSent: unEscaped, err := PathUnescape(URL);
\* the assignment dl.urlMap[ev.Request.URL] = ev.RequestID begins
ListenEvent ==
  /\ sess.pc # "fatal"
  /\ sess.lpc = "idle"
  /\ sess.events < MaxEvents
  /\ \E u \in Urls :
       sess' = [sess EXCEPT !.lpc = "writeRaw",
                            !.ev = [url |-> u, id |-> sess.events + 1],
                            !.events = @ + 1,
                            !.raced = @ \/ sess.pc = "finding"]
  /\ UNCHANGED <<inputVars, runVars, inf, req>>

\* dl.urlMap[ev.Request.URL] = ev.RequestID is done; if err == nil the
\* assignment dl.urlMap[unEscaped] = ev.RequestID begins
ListenWriteRaw ==
  /\ sess.pc # "fatal"
  /\ sess.lpc = "writeRaw"
  /\ sess' = [sess EXCEPT !.urlMap = RecordRaw(@, sess.ev),
                          !.lpc = IF PathUnescape(sess.ev.url).ok
                                  THEN "writeUnesc" ELSE "idle",
                          !.raced = @ \/ (sess.pc = "finding"
                                            /\ PathUnescape(sess.ev.url).ok)]
  /\ UNCHANGED <<inputVars, runVars, inf, req>>

\* dl.urlMap[unEscaped] = ev.RequestID is done; the callback returns
ListenWriteUnescaped ==
  /\ sess.pc # "fatal"
  /\ sess.lpc = "writeUnesc"
  /\ sess' = [sess EXCEPT !.urlMap = RecordUnescaped(@, sess.ev),
                          !.lpc = "idle"]
  /\ UNCHANGED <<inputVars, runVars, inf, req>>

\* DownloadPageTo returns err
DlReturn(s, err) == [s EXCEPT !.pc = "idle", !.err = err, !.fetches = @ + 1]

\* dl.DownloadPageTo(pageNo, writer) is called
DlStart ==
  /\ sess.pc = "idle"
  /\ sess.fetches < MaxFetches
  /\ sess' = [sess EXCEPT !.pc = "run", !.asked = FALSE, !.b = FALSE,
                          !.src = <<>>,
                          !.id = NoRequest, !.raced = FALSE, !.looked = FALSE,
                          !.mapAtFind = EmptyUrlMap, !.bodyOk = FALSE,
                          !.written = <<>>, !.err = Nil]
  /\ UNCHANGED <<inputVars, runVars, inf, req>>

\* chromedp.Navigate, chromedp.Reload, chromedp.WaitVisible(`#mangaFile`);
\* chromedp.Run returns the first error of its actions
DlRun ==
  /\ sess.pc = "run"
  /\ \E ok \in BOOLEAN :
       sess' = IF ok THEN [sess EXCEPT !.pc = "attr"] ELSE DlReturn(sess, RunErr)
  /\ UNCHANGED <<inputVars, runVars, inf, req>>

\* chromedp.AttributeValue(`#mangaFile`, "src", &src, &b); if !b the action
\* returns errors.New("no such image")
DlAttribute ==
  /\ sess.pc = "attr"
  /\ \/ \E u \in Urls :
          sess' = [sess EXCEPT !.asked = TRUE, !.b = TRUE, !.src = u,
                               !.pc = "find"]
     \/ sess' = DlReturn([sess EXCEPT !.asked = TRUE, !.b = FALSE], NoSuchImage)
  /\ UNCHANGED <<inputVars, runVars, inf, req>>

\* dl.findRequestID(src) begins
DlFind ==
  /\ sess.pc = "find"
  /\ sess' = [sess EXCEPT !.pc = "finding", !.looked = TRUE,
                          !.mapAtFind = sess.urlMap,
                          !.raced = sess.lpc \in Writes]
  /\ UNCHANGED <<inputVars, runVars, inf, req>>

\* dl.findRequestID(src) returns: the request id, or "no such url"
DlFound ==
  /\ sess.pc = "finding"
  /\ \E r \in FindOutcomes(sess.urlMap, sess.src, sess.raced, sess.events) :
       sess' = IF r = Fatal THEN [sess EXCEPT !.pc = "fatal"]
               ELSE IF r.ok THEN [sess EXCEPT !.id = r.id, !.pc = "body"]
               ELSE DlReturn(sess, NoSuchUrl(sess.src))
  /\ UNCHANGED <<inputVars, runVars, inf, req>>

\* data, err := network.GetResponseBody(v).Do(ctx)
DlBody ==
  /\ sess.pc = "body"
  /\ \E ok \in BOOLEAN :
       sess' = IF ok THEN [sess EXCEPT !.bodyOk = TRUE, !.pc = "write"]
               ELSE DlReturn(sess, BodyErr)
  /\ UNCHANGED <<inputVars, runVars, inf, req>>

\* writer.Write(data): a failing writer may have taken a part of the data
DlWrite ==
  /\ sess.pc = "write"
  /\ \E w \in {"all", "part", "none"} :
       sess' = IF w = "all"
               THEN DlReturn([sess EXCEPT !.written = <<Body(sess.id)>>], Nil)
               ELSE IF w = "part"
               THEN DlReturn([sess EXCEPT !.written = <<<<"part", sess.id>>>>],
                             WriteErr(0))
               ELSE DlReturn(sess, WriteErr(0))
  /\ UNCHANGED <<inputVars, runVars, inf, req>>

SessionNext ==
  \/ ListenEvent
  \/ ListenWriteRaw
  \/ ListenWriteUnescaped
  \/ DlStart
  \/ DlRun
  \/ DlAttribute
  \/ DlFind
  \/ DlFound
  \/ DlBody
  \/ DlWrite

SessionSpec == SessionInit /\ [][SessionNext]_vars

(***************************************************************************)
(* One call of fillComicInfo or of fillSearchResults.  Every call of       *)
(* textContent and evalJS either fails with some cause or returns a text   *)
(* or a list of links of the page.                                        *)
(***************************************************************************)
InfoInit ==
  /\ impl = "info"
  /\ format = "cbz"
  /\ chapterIDs = <<"A">>
  /\ pagesOf = [c \in Chapters |-> 0]
  /\ workerCnt = 1
  /\ jpc = "info"
  /\ InitState

\* fetcher.fillComicInfo(info).Do(ctx) or fetcher.fillSearchResults(&results)
\* is called: var err error
FillStart ==
  /\ inf.pc = "idle"
  /\ inf.tried = <<>>
  /\ \E op \in {"title", "search"} : inf' = [inf EXCEPT !.pc = op]
  /\ UNCHANGED <<inputVars, runVars, sess, req>>

\* one step that failed with cause e: err = multierr.Append(err, ...)
StepFails(f, step, e, next) ==
  [f EXCEPT !.err = MultiAppend(@, Wrap(step, e)),
            !.tried = Append(@, step), !.failed = Append(@, Wrap(step, e)),
            !.pc = next]

\* textContent(ctx, `.book-title h1`, &title)
FillTitle ==
  /\ inf.pc = "title"
  /\ \/ \E e \in Causes : inf' = StepFails(inf, "get title", e, "detail")
     \/ \E t \in SeqsOf(TextTokens, 0, MaxText) :
          inf' = [inf EXCEPT !.info.Title = TrimSpace(t),
                             !.tried = Append(@, "get title"), !.pc = "detail"]
  /\ UNCHANGED <<inputVars, runVars, sess, req>>

\* textContent(ctx, `.book-detail .detail-list`, &detailText)
FillDetail ==
  /\ inf.pc = "detail"
  /\ \/ \E e \in Causes : inf' = StepFails(inf, "get detail", e, "description")
     \/ \E t \in SeqsOf(DetailTokens, 0, MaxText) :
          inf' = [inf EXCEPT !.info.Author = AuthorOf(t, @),
                             !.info.Status = StatusOf(t, @),
                             !.tried = Append(@, "get detail"),
                             !.pc = "description"]
  /\ UNCHANGED <<inputVars, runVars, sess, req>>

\* textContent(ctx, `#intro-all`, &description)
FillDescription ==
  /\ inf.pc = "description"
  /\ \/ \E e \in Causes : inf' = StepFails(inf, "get description", e, "chapters")
     \/ \E t \in SeqsOf(TextTokens, 0, MaxText) :
          inf' = [inf EXCEPT !.info.Description = TrimSpace(t),
                             !.tried = Append(@, "get description"),
                             !.pc = "chapters"]
  /\ UNCHANGED <<inputVars, runVars, sess, req>>

\* evalJS(ctx, ..., &chapterData) and the loop over chapterData; return err
FillChapters ==
  /\ inf.pc = "chapters"
  /\ \/ \E e \in Causes : inf' = StepFails(inf, "get chapters", e, "done")
     \/ \E links \in SeqsOf(Links, 0, MaxLinks) :
          inf' = [inf EXCEPT !.info.Chapters = @ \o ChaptersOf(links),
                             !.tried = Append(@, "get chapters"), !.pc = "done"]
  /\ UNCHANGED <<inputVars, runVars, sess, req>>

\* fillSearchResults: evalJS(ctx, ..., &searchData) and the loop over
\* searchData; return err
FillSearch ==
  /\ inf.pc = "search"
  /\ \/ \E e \in Causes : inf' = StepFails(inf, "get search results", e, "done")
     \/ \E links \in SeqsOf(Links, 0, MaxLinks) :
          inf' = [inf EXCEPT !.results = @ \o ResultsOf(links),
                             !.tried = Append(@, "get search results"),
                             !.pc = "done"]
  /\ UNCHANGED <<inputVars, runVars, sess, req>>

InfoNext ==
  \/ FillStart
  \/ FillTitle
  \/ FillDetail
  \/ FillDescription
  \/ FillChapters
  \/ FillSearch

InfoSpec == InfoInit /\ [][InfoNext]_vars

(***************************************************************************)
(* The MCP server handling up to MaxRequests download requests, one after  *)
(* the other, in one working directory.                                    *)
(***************************************************************************)
RequestInit ==
  /\ impl = "request"
  /\ format = "cbz"
  /\ chapterIDs = <<"A">>
  /\ pagesOf = [c \in Chapters |-> 0]
  /\ workerCnt = 1
  /\ jpc = "request"
  /\ InitState

\* a request arrives and the handler runs its checks: it returns the error
\* of the first check that fails, or goes on to chromedp.NewContext and
\* os.Create
ReqValidate ==
  /\ jpc = "request"
  /\ req.pc = "idle"
  /\ req.calls < MaxRequests
  /\ \E h \in Handlers, a \in ReqArgs :
       req' = [req EXCEPT !.h = h, !.a = a, !.created = FALSE,
                          !.before = [files |-> req.files,
                                      contacts |-> req.contacts],
                          !.err = Validate(h, a),
                          !.pc = IF Validate(h, a) = Nil THEN "create" ELSE "idle",
                          !.calls = IF Validate(h, a) = Nil THEN @ ELSE @ + 1]
  /\ UNCHANGED <<inputVars, runVars, sess, inf>>

\* file, err := os.Create(filename): creates the file or truncates it, or
\* fails and the handler returns "failed to create output file"
ReqCreate ==
  /\ req.pc = "create"
  /\ \E ok \in BOOLEAN :
       req' = IF ok
              THEN [req EXCEPT !.files[OutputName(req.h, req.a)] = "empty",
                               !.created = TRUE, !.pc = "download"]
              ELSE [req EXCEPT !.err = Err("create", 0, 0), !.pc = "idle",
                               !.calls = @ + 1]
  /\ UNCHANGED <<inputVars, runVars, sess, inf>>

\* downloadToCBZ / downloadToEPUB (summarizeToCBZ / summarizeToEPUB): the
\* download calls the site, writes the archive into the file and returns
ReqDownload ==
  /\ req.pc = "download"
  /\ \E ok \in BOOLEAN :
       req' = [req EXCEPT !.files[OutputName(req.h, req.a)] =
                            IF ok THEN "archive" ELSE "partial",
                          !.contacts = @ + 1,
                          !.err = IF ok THEN Nil ELSE Err("download", 0, 0),
                          !.pc = "idle", !.calls = @ + 1]
  /\ UNCHANGED <<inputVars, runVars, sess, inf>>

RequestNext == ReqValidate \/ ReqCreate \/ ReqDownload

RequestSpec == RequestInit /\ [][RequestNext]_vars

(***************************************************************************)
(* Properties.                                                             *)
(***************************************************************************)
\* number of pages of the first n chapters of the request
RECURSIVE PageSum(_)
PageSum(n) == IF n = 0 THEN 0 ELSE PageSum(n - 1) + pagesOf[chapterIDs[n]]

\* the job has left the pool phase (wg.Wait() has returned)
Joined == \/ jpc \in {"checkErr", "append", "deferCancel"}
          \/ (jpc \in {"deferClose", "done"} /\ fpc # "idle")

\* the entries of the output archive
ArchiveEntries == IF format = "cbz" THEN cbz.entries ELSE ew.entries

\* C1: after the planning loop has handled the first chn-1 chapters, tasks
\* holds exactly one task per page of these chapters, the k-th task has
\* index k-1, and the tasks are in chapter order and, within a chapter, in
\* the order of the locator's page list.
C1_PlanOrder ==
  (impl = "pool" /\ hist.planFailed = {}) =>
    /\ Len(tasks) = PageSum(chn - 1)
    /\ \A k \in 1..Len(tasks) : tasks[k].index = k - 1
    /\ \A i \in 1..(chn - 1) :
         \A j \in 1..pagesOf[chapterIDs[i]] :
           LET t == tasks[PageSum(i - 1) + j] IN
             /\ t.chapterID = chapterIDs[i]
             /\ t.pageID = PageList(pagesOf[chapterIDs[i]])[j]

C1_Witness ==
  /\ jpc = "spawn"
  /\ Len(chapterIDs) = 2
  /\ pagesOf[chapterIDs[1]] >= 1
  /\ pagesOf[chapterIDs[2]] >= 2
  /\ Len(tasks) >= 3

\* C2: the i-th blob handed to the encoder is the bytes of the task with
\* index i-1, whichever worker fetched it and in whichever order; when no
\* fetch and no archive write failed, the finished run has handed over the
\* blobs of all tasks.
C2_AppendOrder ==
  /\ \A i \in 1..Len(hist.appended) :
       \A k \in 1..Len(tasks) :
         tasks[k].index = i - 1 =>
           /\ hist.appended[i].data = PageBytes(tasks[k].chapterID, tasks[k].pageID)
           /\ hist.appended[i].name = JpgName(tasks[k].index)
  /\ (impl = "pool" /\ jpc = "done" /\ hist.planFailed = {}
        /\ hist.failed = {} /\ ~hist.writeFailed)
       => (Len(hist.appended) = Len(tasks) /\ retErr = Nil)

C2_Witness ==
  /\ jpc = "done"
  /\ retErr = Nil
  /\ Len(hist.appended) >= 3
  /\ \E i, j \in 1..Len(tasks) :
       i < j /\ hist.writers[i] = <<2>> /\ hist.writers[j] = <<1>>

\* C3: once a task has failed in a worker, no page is ever appended to the
\* archive, and the finished download has returned one worker error.
C3_FailureNoAppend ==
  hist.failed # {} =>
    /\ hist.appended = <<>>
    /\ cbz.entries = <<>>
    /\ ew.pages = <<>> /\ ew.images = <<>>
    /\ jpc \in {"deferCancel", "deferClose", "done"} =>
         (retErr # Nil /\ retErr.kind \in {"open", "fetch"}
            /\ retErr.at \in hist.failed)

C3_Witness ==
  /\ jpc = "done"
  /\ Cardinality(hist.failed) >= 2
  /\ retErr.kind \in {"open", "fetch"}

\* C4: after a failed worker-pool download (planning failure or task
\* failure) the finalized archive has no entry, for CBZ and for EPUB.
C4_FailedArchiveEmpty ==
  (impl = "pool" /\ jpc = "done" /\ retErr.kind \in {"plan", "open", "fetch"})
    => Len(ArchiveEntries) = 0

\* C5: the error holder never holds more than one error, the error it holds
\* is the first one a worker tried to place, a worker placing a later error
\* is not blocked, and the job returns the first error.
C5_FirstErrorWins ==
  /\ Len(errCh) <= 1
  /\ errCh # <<>> => errCh[1] = Head(hist.errLog)
  /\ (hist.errLog # <<>> /\ jpc \in {"deferCancel", "deferClose", "done"})
       => (retErr = Head(hist.errLog) /\ errCh = <<>>)
  /\ \A w \in Workers : wpc[w] = "sendErr" => ENABLED SendErr(w)

C5_Witness ==
  /\ jpc = "done"
  /\ Len(hist.errLog) >= 2
  /\ hist.errLog[1] # hist.errLog[2]
  /\ retErr = hist.errLog[1]

\* C6: the feeder is never left blocked for ever on a send: it never has a
\* task still to send when every worker has returned (no receiver can come).
C6_FeederNotStranded ==
  ~(fpc = "send" /\ fi <= total /\ \A w \in Workers : wpc[w] = "returned")

\* C7: once the job is past wg.Wait() (it reads errCh, reads results,
\* appends a page or returns), every worker has returned.
C7_JoinBeforeReport ==
  (impl = "pool" /\ (Joined \/ hist.appended # <<>>))
    => \A w \in Workers : wpc[w] = "returned"

C7_Witness ==
  /\ jpc = "append"
  /\ ai >= 1
  /\ workerCnt = 2
  /\ \A w \in Workers : wpc[w] = "returned"

\* C8: results has one slot per task before any worker runs; every task is
\* received by at most one worker, every slot is written at most once and
\* only by the worker that received its task, and a run without a failure
\* has written every slot exactly once.
C8_DisjointSlots ==
  /\ (\E w \in Workers : wpc[w] # "idle") =>
       (Len(results) = total /\ total > 0)
  /\ \A i \in DOMAIN hist.recv : Len(hist.recv[i]) <= 1
  /\ \A i \in DOMAIN hist.writers :
       /\ Len(hist.writers[i]) <= 1
       /\ hist.writers[i] # <<>> => hist.writers[i] = hist.recv[i]
       /\ hist.writers[i] = <<>> => results[i] = NoBytes
  /\ (Joined /\ hist.failed = {}) =>
       \A i \in 1..total : Len(hist.writers[i]) = 1

C8_Witness ==
  /\ jpc = "checkErr"
  /\ hist.failed = {}
  /\ total >= 3
  /\ \E i, j \in 1..total : hist.writers[i] = <<1>> /\ hist.writers[j] = <<2>>

\* C9: a session is used for page fetches only by the worker that opened
\* it, and a worker's dlMap holds only sessions that worker opened.
C9_SessionNotShared ==
  /\ \A u \in hist.sessUse : u[1].owner = u[2]
  /\ \A w \in Workers : \A c \in Chapters :
       dlMap[w][c] # NoSession => dlMap[w][c] = Session(w, c)

C9_Witness ==
  \E c \in Chapters :
    /\ <<Session(1, c), 1>> \in hist.sessUse
    /\ <<Session(2, c), 2>> \in hist.sessUse

\* C10: when resolving a chapter fails during planning, the download
\* returns that error at once: no later chapter is resolved, no worker and
\* no feeder is started, no session is opened and no page is fetched.
C10_PlanningFailsFast ==
  \A n \in hist.planFailed :
    /\ jpc \in {"deferClose", "done"}
    /\ retErr = Err("plan", n, 0)
    /\ hist.resolved = [i \in 1..n |-> i]
    /\ \A w \in Workers : wpc[w] = "idle"
    /\ fpc = "idle"
    /\ results = <<>>
    /\ hist.recv = <<>>
    /\ hist.sessUse = {}
    /\ \A w \in Workers : \A c \in Chapters : dlMap[w][c] = NoSession
    /\ hist.appended = <<>>

C10_Witness ==
  /\ jpc = "done"
  /\ hist.planFailed = {1}
  /\ Len(chapterIDs) = 2

(***************************************************************************)
(* Properties of the archives (Spec: download runs; WriterSpec: the        *)
(* EPUBWriter driven directly).                                            *)
(***************************************************************************)
\* the pages of the first n chapters of the request, as <<chapter, page>>,
\* in chapter order and page order: position i+1 is the page with global
\* index i
RECURSIVE AllPages(_)
AllPages(n) ==
  IF n = 0 THEN <<>>
  ELSE AllPages(n - 1)
         \o [j \in 1..pagesOf[chapterIDs[n]] |->
               <<chapterIDs[n], PageList(pagesOf[chapterIDs[n]])[j]>>]

\* C11: a successful CBZ download (worker pool or sequential) of N pages
\* leaves exactly the entries 0.jpg, 1.jpg, ..., (N-1).jpg, in this order,
\* and entry i.jpg holds the bytes of the page with global index i.
C11_CbzEntries ==
  (jpc = "done" /\ format = "cbz" /\ retErr = Nil) =>
    LET pages == AllPages(Len(chapterIDs)) IN
      /\ Len(cbz.entries) = Len(pages)
      /\ \A i \in 1..Len(cbz.entries) :
           /\ cbz.entries[i].name = JpgName(i - 1)
           /\ cbz.entries[i].data = PageBytes(pages[i][1], pages[i][2])

C11_Witness ==
  /\ jpc = "done" /\ format = "cbz" /\ retErr = Nil
  /\ impl = "pool" /\ workerCnt = 2
  /\ Len(chapterIDs) = 2 /\ chapterIDs[1] # chapterIDs[2]
  /\ Len(cbz.entries) >= 3
  /\ hist.writers[1] = <<2>>

\* the client made N successful AddPage calls and then one successful Close
CleanRun ==
  /\ hist.calls # <<>>
  /\ LET n == Len(hist.calls) IN
       /\ hist.calls[n].op = "Close" /\ hist.calls[n].err = Nil
       /\ \A k \in 1..(n - 1) :
            hist.calls[k].op = "AddPage" /\ hist.calls[k].err = Nil

\* the document in the last entry with the given structure-file name
StructureData(name) ==
  LET I == {i \in 1..Len(ew.entries) :
              ew.entries[i].name.dir = "" /\ ew.entries[i].name.file = name}
  IN  ew.entries[CHOOSE i \in I : \A j \in I : j <= i].data[2]

\* C12: after N >= 0 successful AddPage calls and Close, the first entry of
\* the archive is named mimetype, is stored uncompressed and holds exactly
\* application/epub+zip.
C12_MimetypeFirst ==
  CleanRun =>
    /\ ew.entries[1].name.dir = ""
    /\ ew.entries[1].name.file = "mimetype"
    /\ ew.entries[1].method = "store"
    /\ ew.entries[1].data = <<"application/epub+zip">>

\* C13: after N successful AddPage calls and Close, the navigation document
\* has exactly N entries, the k-th has playOrder k and points at
\* pagek.xhtml, which is the wrapper document the k-th AddPage wrote.
C13_PlayOrder ==
  CleanRun =>
    LET n == Len(hist.calls) - 1
        nav == StructureData("OEBPS/toc.ncx").navMap
    IN  /\ Len(nav) = n
        /\ \A k \in 1..n :
             /\ nav[k].playOrder = k
             /\ nav[k].src = XhtmlName(k)
             /\ \E i \in 1..Len(hist.calls[k].added) :
                  LET en == hist.calls[k].added[i] IN
                    /\ en.name.dir = "OEBPS"
                    /\ en.name.file = nav[k].src
                    /\ en.data[2].src.file = hist.calls[k].file

C13_Witness ==
  /\ CleanRun
  /\ Len(hist.calls) = 3
  /\ Len(StructureData("OEBPS/toc.ncx").navMap) = 2

\* the media type the extension of a filename stands for
MediaTypeOfExt(ext) == IF ext = "png" THEN "image/png" ELSE "image/jpeg"

\* C14: the manifest item of every appended image carries the media type of
\* the filename's extension: image/png for .png, image/jpeg for .jpg/.jpeg.
C14_MediaTypes ==
  CleanRun =>
    LET n == Len(hist.calls) - 1
        items == StructureData("OEBPS/content.opf").manifest
    IN  \A k \in 1..n :
          hist.calls[k].file.ext \in {"jpg", "jpeg", "png"} =>
            \E i \in 1..Len(items) :
              /\ items[i].id = ImgId(k)
              /\ items[i].mediaType = MediaTypeOfExt(hist.calls[k].file.ext)

\* C15: AddPage with a filename whose extension is not a recognized image
\* extension returns an error and records no page.
C15_UnknownExtRejected ==
  \A k \in 1..Len(hist.calls) :
    LET c == hist.calls[k] IN
      (c.op = "AddPage" /\ c.file.ext \notin {"jpg", "jpeg", "png"}) =>
        (c.err # Nil /\ c.recorded = 0)

\* C16: after successful AddPage(f_1, d_1) ... AddPage(f_N, d_N) and Close,
\* the archive has for each k an entry OEBPS/images/f_k holding d_k, and the
\* manifest lists the image items with href images/f_k in append order.
C16_ImagesAndManifest ==
  CleanRun =>
    LET n == Len(hist.calls) - 1
        items == StructureData("OEBPS/content.opf").manifest
    IN  /\ \A k \in 1..n :
             \E i \in 1..Len(ew.entries) :
               /\ ew.entries[i].name.dir = "OEBPS/images"
               /\ ew.entries[i].name.file = hist.calls[k].file
               /\ ew.entries[i].data = hist.calls[k].data
        /\ Len(items) = 2 * n
        /\ \A k \in 1..n :
             /\ items[2 * k].id = ImgId(k)
             /\ items[2 * k].href = [dir |-> "images", file |-> hist.calls[k].file]

C16_Witness ==
  /\ CleanRun
  /\ Len(hist.calls) = 3
  /\ hist.calls[1].file.ext = "png"
  /\ hist.calls[2].file.ext = "jpeg"

\* C17: a Close on a writer that is still open writes the structure files
\* in the order mimetype, container.xml, content.opf, toc.ncx; it closes
\* the archive only after all four are written; when one of them fails it
\* returns that error, writes no later one and leaves the archive open.
C17_CloseOrder ==
  \A k \in 1..Len(hist.calls) :
    LET c == hist.calls[k] IN
      (c.op = "Close" /\ ~c.closedBefore) =>
        /\ Len(c.added) <= 4
        /\ \A i \in 1..Len(c.added) :
             c.added[i].name.dir = "" /\ c.added[i].name.file = StructureNames[i]
        /\ c.closedAfter =>
             (Len(c.added) = 4 /\ \A i \in 1..4 : c.added[i].data # NoBytes)
        /\ c.err = Nil => c.closedAfter
        /\ c.failAt \in 1..8 =>
             /\ c.err = WriteErr(CloseFailFile(c.failAt))
             /\ ~c.closedAfter
             /\ Len(c.added) <= CloseFailFile(c.failAt)
             /\ \A i \in 1..Len(c.added) :
                  i < CloseFailFile(c.failAt) => c.added[i].data # NoBytes

C17_Witness ==
  /\ Len(hist.calls) = 2
  /\ hist.calls[1].op = "AddPage" /\ hist.calls[1].err = Nil
  /\ hist.calls[2].op = "Close" /\ hist.calls[2].failAt = 5
  /\ Len(hist.calls[2].added) = 2
  /\ ~ew.closed

\* C18: when finalizing the archive fails (Close returns an error), the
\* download returns a non-nil error.
C18_FinalizeErrorSurfaced ==
  (jpc = "done" /\ hist.closeErr # Nil) => retErr # Nil

\* C19: on every path of a download run the archive writer is finalized
\* exactly once, at the end of the run, no page is appended after it, and
\* pages are appended in increasing index order.
C19_FinalizeOnce ==
  /\ hist.closeCalls = (IF jpc = "done" THEN 1 ELSE 0)
  /\ jpc # "done" => (~cbz.closed /\ ~ew.closed)
  /\ jpc = "done" => Len(hist.appended) = hist.appendsAtClose
  /\ \A i \in 1..Len(hist.appended) : hist.appended[i].name = JpgName(i - 1)

C19_Witness ==
  /\ jpc = "done"
  /\ hist.writeFailed
  /\ Len(hist.appended) >= 2
  /\ hist.closeCalls = 1

\* C20: once Close has closed the archive, a later AddPage returns an error
\* and adds no entry and no page record, and a later Close writes no
\* structure file again.
C20_UnusableAfterClose ==
  \A k \in 1..Len(hist.calls) :
    LET c == hist.calls[k] IN
      c.closedBefore =>
        /\ c.added = <<>>
        /\ c.recorded = 0
        /\ c.op = "AddPage" => c.err # Nil

(***************************************************************************)
(* Properties of a downloader session (SessionSpec).                       *)
(***************************************************************************)
\* a recorded request matches src: its raw form or its path-unescaped form
\* is a key of the map
Matches(m, src) ==
  \/ m[src] # NoRequest
  \/ (PathUnescape(src).ok /\ m[PathUnescape(src).val] # NoRequest)

\* C21: DownloadPageTo returns "no such image" when the src attribute is
\* absent and an error of another kind, "no such url", when src is there
\* but no recorded request matches its raw or unescaped form; in both
\* cases, and when the body cannot be retrieved, nothing is written; bytes
\* are written only after the body was retrieved.
C21_FetchErrors ==
  /\ sess.written # <<>> => (sess.bodyOk /\ sess.b /\ sess.looked)
  /\ (sess.pc = "idle" /\ sess.fetches > 0) =>
       /\ (sess.asked /\ ~sess.b) =>
            (sess.err = NoSuchImage /\ ~sess.looked /\ sess.written = <<>>)
       /\ (sess.looked /\ ~sess.raced) =>
            (~Matches(sess.mapAtFind, sess.src) <=>
               (sess.err = NoSuchUrl(sess.src) /\ sess.written = <<>>))
       /\ sess.err = NoSuchUrl(sess.src) =>
            (sess.b /\ sess.err.kind # NoSuchImage.kind /\ sess.written = <<>>)
       /\ sess.err = BodyErr => (sess.looked /\ sess.written = <<>>)
       /\ sess.err = Nil => sess.written = <<Body(sess.id)>>

C21_Witness ==
  /\ sess.pc = "idle" /\ sess.fetches = 2
  /\ sess.b /\ sess.looked /\ ~sess.raced
  /\ sess.src = <<"%zz">>
  /\ sess.mapAtFind[<<" ">>] # NoRequest
  /\ sess.err = NoSuchUrl(sess.src)

\* C30: the listener's assignments to urlMap never run at the same time as
\* findRequestID reads the map.
C30_NoConcurrentMapAccess ==
  ~(sess.pc = "finding" /\ sess.lpc \in Writes)

(***************************************************************************)
(* Properties of the info fetcher (InfoSpec).                              *)
(***************************************************************************)
\* the steps of fillComicInfo, in its order
ComicSteps == <<"get title", "get detail", "get description", "get chapters">>

\* the step failed in this call
StepFailed(step) == \E k \in 1..Len(inf.failed) : inf.failed[k].step = step

\* C22: fillComicInfo tries its four steps whatever failed before, its
\* error holds the message of every failed step and is nil only when none
\* failed, and a failed step leaves its fields unset; fillSearchResults
\* returns the evaluation's error and appends nothing when it fails.
C22_AllStepsAllErrors ==
  inf.pc = "done" =>
    /\ inf.tried \in {ComicSteps, <<"get search results">>}
    /\ \A k \in 1..Len(inf.failed) :
         \E j \in 1..Len(inf.err) : inf.err[j] = inf.failed[k]
    /\ \A j \in 1..Len(inf.err) :
         \E k \in 1..Len(inf.failed) : inf.err[j] = inf.failed[k]
    /\ (inf.err = <<>>) <=> (inf.failed = <<>>)
    /\ StepFailed("get title") => inf.info.Title = <<>>
    /\ StepFailed("get detail") => (inf.info.Author = <<>> /\ inf.info.Status = <<>>)
    /\ StepFailed("get description") => inf.info.Description = <<>>
    /\ StepFailed("get chapters") => inf.info.Chapters = <<>>
    /\ StepFailed("get search results") => inf.results = <<>>

C22_Witness ==
  /\ inf.pc = "done"
  /\ Len(inf.err) = 3
  /\ StepFailed("get title") /\ StepFailed("get detail")
  /\ StepFailed("get chapters")
  /\ inf.info.Description = <<"x">>

(***************************************************************************)
(* Further properties of the download runs (Spec).                         *)
(***************************************************************************)
\* the entries of the output archive that hold a page image
PageEntries ==
  IF format = "cbz" THEN cbz.entries
  ELSE SelectSeq(ew.entries, LAMBDA en : en.name.dir = "OEBPS/images")

\* C23: when a chapter resolution or a page fetch fails in the sequential
\* download, the output archive holds no page entry, neither of a page
\* fetched before the failure nor of the page being fetched.
C23_NoPartialArchive ==
  (impl = "seq" /\ jpc = "done" /\ retErr.kind \in {"open", "fetch"})
    => PageEntries = <<>>

\* C24: under the scheduler's fairness, whenever the job waits on the
\* worker group, all workers eventually return and the wait completes,
\* whatever the tasks, the worker count and the failures.
C24_PoolTerminates ==
  (jpc = "wait") ~> (jpc # "wait" /\ \A w \in Workers : wpc[w] = "returned")

C24_Witness ==
  /\ jpc = "checkErr"
  /\ workerCnt > total
  /\ hist.failed # {}
  /\ \A w \in Workers : wpc[w] = "returned"

\* the worker that pulled the task at position i of tasks
PulledBy(i) == hist.recv[i][1]

\* C25: a worker checks the cancellation signal once per task it pulls and
\* before any collaborator call for it; a task pulled after the signal was
\* raised is never opened or fetched, its slot stays unwritten, and the
\* worker that pulled it pulls no further task.
C25_CheckOncePerTask ==
  /\ \A i \in DOMAIN hist.checks :
       /\ hist.checks[i] <= 1
       /\ i \in hist.collab => hist.checks[i] = 1
       /\ (hist.recv[i] # <<>> /\ hist.checks[i] = 0) =>
            (wpc[PulledBy(i)] = "check" /\ wtask[PulledBy(i)] = tasks[i])
  /\ \A i \in hist.late :
       /\ i \notin hist.collab
       /\ (i - 1) \notin hist.failed
       /\ hist.writers[i] = <<>>
       /\ results[i] = NoBytes
       /\ wpc[PulledBy(i)] \in {"check", "returned"}
       /\ \A j \in (i + 1)..total : hist.recv[j] # <<PulledBy(i)>>

C25_Witness ==
  /\ jpc = "checkErr"
  /\ workerCnt = 2
  /\ \E i \in hist.late :
       /\ i < total
       /\ hist.checks[i] = 1
       /\ wpc[PulledBy(i)] = "returned"
       /\ hist.recv[i + 1] = <<>>

\* the slots of results a worker has written
Written == {i \in DOMAIN hist.writers : hist.writers[i] # <<>>}

\* C26: a worker raises the cancellation signal only after it tried to
\* place its error in the holder, so while the job has not read the holder
\* a raised signal means a non-empty holder; the job appends pages and
\* returns success only when no worker exited early and every slot was
\* written, and it never archives an unwritten slot.
C26_CancelAfterReport ==
  /\ \A w \in Workers : wpc[w] = "cancel" => errCh # <<>>
  /\ (cancelled /\ jpc \in {"wait", "checkErr"}) => errCh # <<>>
  /\ (impl = "pool" /\ (jpc = "append" \/ hist.appended # <<>>
                          \/ (jpc = "done" /\ retErr = Nil /\ total > 0))) =>
       (hist.early = {} /\ Written = 1..total)
  /\ impl = "pool" => \A i \in 1..Len(hist.appended) : i \in Written

C26_Witness ==
  /\ jpc = "checkErr"
  /\ cancelled
  /\ Cardinality(hist.early) = 2
  /\ Written # {}
  /\ Written # 1..total

\* the number of tasks of chapter c
TasksOf(c) == Cardinality({i \in 1..total : tasks[i].chapterID = c})

\* the number of NewDownload calls the workers made for chapter c
OpensOf(c) ==
  LET RECURSIVE Sum(_)
      Sum(w) == IF w = 0 THEN 0 ELSE Sum(w - 1) + hist.opens[w][c]
  IN  Sum(workerCnt)

Min(a, b) == IF a <= b THEN a ELSE b

\* a worker opens a chapter only for a task of it that it pulled while its
\* map had no session of it, at most once, and fetches the pages of the
\* chapter with the session its map holds
OpensLazily ==
  \A w \in Workers : \A c \in Chapters :
    /\ hist.opens[w][c] <= 1
    /\ hist.opens[w][c] = 1 =>
         \E i \in 1..total : hist.recv[i] = <<w>> /\ tasks[i].chapterID = c
    /\ (wpc[w] \in {"fetch", "count"} /\ wtask[w].chapterID = c) =>
         (dlMap[w][c] = Session(w, c) /\ hist.opens[w][c] = 1)

\* C27 as stated: the workers open a chapter at most
\* min(worker count, number of pages of the chapter) times.
C27_OpensByPages ==
  /\ OpensLazily
  /\ impl = "pool" =>
       \A c \in Chapters : OpensOf(c) <= Min(workerCnt, pagesOf[c])

\* C27 amended: the workers open a chapter at most
\* min(worker count, number of tasks of the chapter) times; a chapter the
\* request names twice has twice as many tasks as pages.
C27_OpensByTasks ==
  /\ OpensLazily
  /\ impl = "pool" =>
       \A c \in Chapters : OpensOf(c) <= Min(workerCnt, TasksOf(c))

C27_Witness ==
  /\ jpc = "checkErr"
  /\ hist.failed = {}
  /\ \E c \in Chapters : OpensOf(c) = 2 /\ TasksOf(c) = 2
  /\ \E w \in Workers : \E c \in Chapters :
       /\ hist.opens[w][c] = 1
       /\ Cardinality({i \in Written : hist.writers[i] = <<w>>
                                        /\ tasks[i].chapterID = c}) = 2

\* C28: the progress counter counts the fetched tasks whose slot is
\* written: it never exceeds the number of written slots nor total, the values
\* the workers report are pairwise distinct, and a joined run without a
\* failure has reported exactly 1..total.
C28_ProgressCounter ==
  impl = "pool" =>
    /\ done <= Cardinality(Written)
    /\ Cardinality(Written) <= total
    /\ done + Cardinality({w \in Workers : wpc[w] = "count"})
         = Cardinality(Written)
    /\ \A i, j \in 1..Len(hist.progress) :
         i # j => hist.progress[i] # hist.progress[j]
    /\ \A i \in 1..Len(hist.progress) : hist.progress[i] \in 1..total
    /\ (Joined /\ hist.failed = {} /\ total > 0) =>
         hist.progress = [i \in 1..total |-> i]

C28_Witness ==
  /\ jpc = "checkErr"
  /\ hist.failed = {}
  /\ hist.progress = <<1, 2, 3>>
  /\ hist.writers[3] = <<1>>
  /\ hist.writers[1] = <<2>>

\* the archive the sequential downloadToCBZ builds when every call
\* succeeds: the loop over the chapters and their pages with the counter
\* `page', one entry <page>.jpg per page
RECURSIVE SeqPagesInto(_, _, _)
SeqPagesInto(z, c, pages) ==
  IF pages = <<>> THEN z
  ELSE SeqPagesInto(CbzAppend(z, Len(z.entries), PageBytes(c, Head(pages)), 0),
                    c, Tail(pages))

RECURSIVE SeqArchive(_, _)
SeqArchive(z, chapters) ==
  IF chapters = <<>> THEN z
  ELSE SeqArchive(SeqPagesInto(z, Head(chapters), PageList(pagesOf[Head(chapters)])),
                  Tail(chapters))

\* C29: when every collaborator call and every archive write succeeds, the
\* worker-pool downloadToCBZ, whatever the worker count and the
\* interleaving, leaves the archive of the sequential downloadToCBZ.
C29_PoolEqualsSequential ==
  (jpc = "done" /\ format = "cbz" /\ retErr = Nil) =>
    cbz.entries = SeqArchive(NewZip, chapterIDs).entries

C29_Witness ==
  /\ jpc = "done" /\ format = "cbz" /\ retErr = Nil
  /\ impl = "pool" /\ workerCnt = 2
  /\ Len(cbz.entries) >= 3
  /\ hist.writers[1] = <<2>>
  /\ hist.writers[2] = <<1>>
  /\ hist.writers[3] = <<2>>

(***************************************************************************)
(* Properties of the EPUBWriter's page records (WriterSpec).               *)
(***************************************************************************)
\* the filenames of the AddPage calls among the first n calls that returned
\* no error, in call order
RECURSIVE Recorded(_)
Recorded(n) ==
  IF n = 0 THEN <<>>
  ELSE IF hist.calls[n].op = "AddPage" /\ hist.calls[n].err = Nil
       THEN Append(Recorded(n - 1), hist.calls[n].file)
       ELSE Recorded(n - 1)

\* C31: after any sequence of AddPage calls, successful or failing,
\* pageCount equals the length of the page list and of the image list, the
\* k-th page name is pagek.xhtml, a failing AddPage leaves pageCount and
\* both lists unchanged (the lists hold exactly the pages of the successful
\* calls), and the manifest, the spine and the navigation a Close writes
\* reference exactly the pages of the successful calls before it, none of a
\* failed call.
C31_PageRecords ==
  /\ ew.pageCount = Len(ew.pages)
  /\ ew.pageCount = Len(ew.images)
  /\ \A k \in 1..Len(ew.pages) : ew.pages[k] = XhtmlName(k)
  /\ ew.images = Recorded(Len(hist.calls))
  /\ \A k \in 1..Len(hist.calls) :
       LET c == hist.calls[k]
           ok == Recorded(k - 1)
       IN  /\ (c.op = "AddPage" /\ c.err # Nil) =>
                (c.recorded = 0 /\ Recorded(k) = ok)
           /\ c.op = "Close" =>
                \A i \in 1..Len(c.added) :
                  LET en == c.added[i] IN
                    /\ (en.name.file = "OEBPS/content.opf" /\ en.data # NoBytes) =>
                         /\ Len(en.data[2].manifest) = 2 * Len(ok)
                         /\ Len(en.data[2].spine) = Len(ok)
                         /\ \A j \in 1..Len(ok) :
                              /\ en.data[2].manifest[2 * j - 1].href = XhtmlName(j)
                              /\ en.data[2].manifest[2 * j].href.file = ok[j]
                              /\ en.data[2].spine[j] = PageId(j)
                    /\ (en.name.file = "OEBPS/toc.ncx" /\ en.data # NoBytes) =>
                         /\ Len(en.data[2].navMap) = Len(ok)
                         /\ \A j \in 1..Len(ok) :
                              en.data[2].navMap[j].src = XhtmlName(j)

\* a failed AddPage that had created its wrapper entry, then a successful
\* one, then a successful Close
C31_Witness ==
  /\ Len(hist.calls) = 3
  /\ hist.calls[1].op = "AddPage" /\ hist.calls[1].failAt = 4
  /\ hist.calls[2].op = "AddPage" /\ hist.calls[2].err = Nil
  /\ hist.calls[3].op = "Close" /\ hist.calls[3].err = Nil
  /\ ew.pageCount = 1
  /\ ew.images = <<hist.calls[2].file>>


\* C32: in every finalized EPUB of a successful download, with any number
\* N >= 0 of appended pages, every id the spine references and the id the
\* cover reference names is the id of a manifest item, and the cover item is
\* the image appended first.
C32_RefsDeclared ==
  (jpc = "done" /\ format = "epub" /\ retErr = Nil /\ ew.closed) =>
    LET opf == StructureData("OEBPS/content.opf")
        items == {opf.manifest[i] : i \in 1..Len(opf.manifest)}
    IN  /\ \A k \in 1..Len(opf.spine) : \E it \in items : it.id = opf.spine[k]
        /\ \E it \in items :
             /\ it.id = opf.cover
             /\ it.href.file = JpgName(0)


(***************************************************************************)
(* Properties of the MCP download operation (RequestSpec).                 *)
(***************************************************************************)
\* C33: a request with a format the operation does not accept or with an
\* empty chapter list returns an error, and when it has returned no output
\* file was created or truncated and no collaborator was contacted: the
\* files and the number of collaborator calls are those at its start.  A
\* request the checks have passed is a valid one.
C33_RejectBeforeCreate ==
  LET accepted == IF req.h = "downloadComic" THEN {"cbz", "epub"}
                  ELSE {"cbz", "epub", ""}
      invalid == req.a.format \notin accepted \/ req.a.chapters = <<>>
  IN  /\ (req.h # "none" /\ invalid) =>
           /\ req.pc = "idle"
           /\ req.err # Nil
           /\ ~req.created
           /\ req.files = req.before.files
           /\ req.contacts = req.before.contacts
      /\ req.pc \in {"create", "download"} => ~invalid

\* a first request wrote t.epub; a second one for the same file, with an
\* empty chapter list, was rejected and the file is still the archive
C33_Witness ==
  /\ req.calls = 2 /\ req.pc = "idle"
  /\ req.a.chapters = <<>> /\ req.a.format = "epub" /\ req.a.title = "t"
  /\ req.err # Nil
  /\ req.files[<<"t", "epub">>] = "archive"
  /\ req.contacts = 1

=============================================================================
